---- MODULE Spec2Model ----
(***************************************************************************)
(* Model of the image resizing service: Config (config.py), ImageProcessor *)
(* (image_service.py) and the way main (main.py) drives them.              *)
(*                                                                         *)
(* The file system is part of the state.  A path is a directory and a file *)
(* name; a file name is a sequence of pieces, the last of which is the     *)
(* extension as os.path.splitext sees it.  A file carries what os.stat     *)
(* reports (mtime, size) and what the imaging library reports for its      *)
(* content (stored width and height, whether the EXIF orientation swaps    *)
(* the axes, whether the data verifies, whether it can be decoded and      *)
(* encoded in full).  hashlib.md5 is taken to be collision free, so a      *)
(* cache key is the triple that is hashed.  A file that img.save writes    *)
(* is stamped later than the file it replaces.                             *)
(*                                                                         *)
(* SpecBatch is the processor as main uses it (process_directory, at most  *)
(* MaxRuns times, the input files changing at most MaxEdits times);        *)
(* SpecDirect is the processor as a library (process_single_image, at most *)
(* MaxCalls times, the input files changing at most MaxChanges times).     *)
(***************************************************************************)
EXTENDS Integers, Sequences, FiniteSets, TLC

VARIABLES
    enable_caching,   \* Config.enable_caching
    fs,               \* the files under Config.input_dir: path -> file
    cache,            \* the marker files of Config.cache_dir, by cache key
    processed_count,  \* ImageProcessor.processed_count
    skipped_count,    \* ImageProcessor.skipped_count
    error_count,      \* ImageProcessor.error_count
    pc,               \* "idle", or "running" inside process_directory
    pending,          \* image_files not yet visited by the loop
    total,            \* len(image_files) of the current run
    call,             \* outcome of the latest process_single_image call
    stats,            \* what the latest process_directory call gave
    prev,             \* what the process_directory call before it gave
    runs,             \* number of process_directory calls begun
    transformed,      \* history: cache keys whose transform succeeded
    failed,           \* history: paths that were counted as an error when
                      \* last attempted and have not changed since
    calls,            \* number of direct process_single_image calls
    edits,            \* number of changes made to the input files
    disturbed         \* a direct call was made, or an input file changed
                      \* after the first run began

vars == <<enable_caching, fs, cache, processed_count, skipped_count,
          error_count, pc, pending, total, call, stats, prev, runs,
          transformed, failed, calls, edits, disturbed>>

-----------------------------------------------------------------------------
(* Bounds of the model *)

MaxRuns == 2
MaxEdits == 1
MaxCalls == 2
MaxChanges == 2

-----------------------------------------------------------------------------
(* Config *)

min_width == 600
max_file_size_mb == 10
supported_formats == {".jpg", ".jpeg", ".png"}

\* str.lower on the pieces file names are made of
Lower(s) ==
    CASE s = ".JPG" -> ".jpg"
      [] s = ".PNG" -> ".png"
      [] OTHER -> s

\* the directories: Config.input_dir, a subdirectory of it, and
\* Config.output_dir = os.path.join(input_dir, 'ready-images')
input_dir == "in"
sub_dir == "in/sub"
output_dir == "in/ready-images"

is_valid_image_format(name) ==
    /\ name # <<>>
    /\ \E ext \in supported_formats : Lower(name[Len(name)]) = ext

-----------------------------------------------------------------------------
(* Paths and files *)

Path(d, n) == [dir |-> d, name |-> n]
NoPath == Path("", <<>>)

File(m, s, w, h, x, i, e) ==
    [mtime |-> m, size |-> s, width |-> w, height |-> h, swap |-> x,
     intact |-> i, encodes |-> e]

\* what os.stat can report: two modification times, and three sizes, the
\* largest accepted one and the smallest rejected one among them
Mtimes == {1, 2}
SizeLimit == max_file_size_mb * (1024 * 1024)
Sizes == {4096, SizeLimit, SizeLimit + 1}

\* image contents: <<stored width, stored height, EXIF orientation swaps the
\* axes, data verifies, data decodes and encodes>>
Plain == <<800, 400, FALSE, TRUE, TRUE>>
Contents ==
    { <<600, 400, FALSE, TRUE, TRUE>>,     \* exactly the minimum width
      <<200, 400, FALSE, TRUE, TRUE>>,     \* narrow, 600*400/200 = 1200
      <<350, 200, FALSE, TRUE, TRUE>>,     \* narrow, 600*200/350 = 342.86
      <<599, 1, FALSE, TRUE, TRUE>>,       \* narrow, 600*1/599 = 1.002
      <<800, 400, TRUE, TRUE, TRUE>>,      \* wide as stored, rotated by EXIF
      <<400, 600, TRUE, TRUE, TRUE>>,      \* narrow as stored, rotated by EXIF
      <<800, 400, FALSE, FALSE, FALSE>>,   \* corrupt: verify fails
      <<800, 400, FALSE, TRUE, FALSE>> }   \* verifies, fails while transformed

\* the versions an input file can have: the plain image under every stat,
\* every other content under one stat
Files ==
    { File(m, s, Plain[1], Plain[2], Plain[3], Plain[4], Plain[5]) :
          m \in Mtimes, s \in Sizes }
    \cup { File(1, 4096, c[1], c[2], c[3], c[4], c[5]) : c \in Contents }
    \cup { File(1, SizeLimit + 1, 800, 400, FALSE, FALSE, FALSE) }

\* the paths the user keeps input files at
InputPaths ==
    { Path(input_dir, <<"a", ".jpg">>),
      Path(sub_dir, <<"a", ".PNG">>),
      Path(input_dir, <<"n", ".txt">>) }

\* the versions of the file at path p: a file that is no image by its name
\* is no image by its content
Versions(p) ==
    IF ~is_valid_image_format(p.name)
    THEN {File(1, s, 0, 0, FALSE, FALSE, FALSE) : s \in {4096, SizeLimit + 1}}
    ELSE IF p.dir = input_dir THEN Files
    ELSE {x \in Files : x.mtime = 1 /\ x.size = 4096 /\ ~x.swap /\ x.encodes}

exists(p) == p \in DOMAIN fs

\* os.path.splitext of a file name: <<root, ext>>; a leading dot piece is
\* not an extension
IsDot(s) == s \in {".jpg", ".JPG", ".jpeg", ".png", ".PNG", ".txt"}
splitext(name) ==
    LET dots == {i \in 2..Len(name) : IsDot(name[i])}
    IN IF dots = {} THEN <<name, <<>>>>
       ELSE LET i == CHOOSE j \in dots : \A k \in dots : k <= j
            IN <<SubSeq(name, 1, i - 1), SubSeq(name, i, Len(name))>>

-----------------------------------------------------------------------------
(* ImageProcessor: the pure parts *)

Verdict(v, m, b, c) ==
    [valid |-> v, msg |-> m, needs_borders |-> b, checks |-> c]

\* validate_image with the size check made after the image is verified
validate_image_reordered(f, p) ==
    IF ~is_valid_image_format(p.name)
    THEN Verdict(FALSE, "Invalid image extension", FALSE, <<"extension">>)
    ELSE IF p \notin DOMAIN f
    THEN Verdict(FALSE, "File does not exist", FALSE,
                 <<"extension", "exists">>)
    ELSE IF ~f[p].intact
    THEN Verdict(FALSE, "Error validating image", FALSE,
                 <<"extension", "exists", "verify">>)
    ELSE IF f[p].size > SizeLimit
    THEN Verdict(FALSE, "File too large", FALSE,
                 <<"extension", "exists", "verify", "size">>)
    ELSE Verdict(TRUE, "", f[p].width < min_width,
                 <<"extension", "exists", "verify", "size">>)

\* validate_image on path p of file system f; checks lists the checks made
validate_image(f, p) ==
    IF ~is_valid_image_format(p.name)
    THEN Verdict(FALSE, "Invalid image extension", FALSE, <<"extension">>)
    ELSE IF p \notin DOMAIN f
    THEN Verdict(FALSE, "File does not exist", FALSE,
                 <<"extension", "exists">>)
    ELSE IF f[p].size > SizeLimit
    THEN Verdict(FALSE, "File too large", FALSE,
                 <<"extension", "exists", "size">>)
    ELSE IF ~f[p].intact
    THEN Verdict(FALSE, "Error validating image", FALSE,
                 <<"extension", "exists", "size", "verify">>)
    ELSE Verdict(TRUE, "", f[p].width < min_width,
                 <<"extension", "exists", "size", "verify">>)

\* ImageOps.exif_transpose on the dimensions
exif_transpose(file) ==
    IF file.swap THEN <<file.height, file.width>>
    ELSE <<file.width, file.height>>

\* _add_dark_borders with round() where the code has int()
add_dark_borders_round(size) ==
    IF size[1] >= min_width THEN size
    ELSE <<min_width, (2 * min_width * size[2] + size[1]) \div (2 * size[1])>>

\* _add_dark_borders on the dimensions <<width, height>>
add_dark_borders(size) ==
    IF size[1] >= min_width THEN size
    ELSE <<min_width, (min_width * size[2]) \div size[1]>>

\* process_image: whether it succeeds, the dimensions it saves, and whether
\* the border transform resized the image
process_image(file, add_borders) ==
    LET t == exif_transpose(file)
        o == IF add_borders THEN add_dark_borders(t) ELSE t
    IN [ok |-> file.encodes, from |-> t, size |-> o, bordered |-> o # t]

\* what a cache marker stands for: a path at a modification time and size
Identity(f, p) == <<p, f[p].mtime, f[p].size>>

\* get_cache_key with st_mtime left out of the key
get_cache_key_no_mtime(f, p) == <<p, 0, f[p].size>>

\* get_cache_key: md5 of "{path}_{st_mtime}_{st_size}"
get_cache_key(f, p) == <<p, f[p].mtime, f[p].size>>

\* is_cached with the enable_caching test the wrong way round
is_cached_inverted(f, c, p) ==
    IF enable_caching THEN FALSE
    ELSE p \in DOMAIN f /\ get_cache_key(f, p) \in c

\* is_cached on path p, with file system f and cache directory c
is_cached(f, c, p) ==
    IF ~enable_caching THEN FALSE ELSE get_cache_key(f, p) \in c

\* mark_as_cached without the enable_caching test
mark_as_cached_always(f, c, p) == c \cup {get_cache_key(f, p)}

\* mark_as_cached: the cache directory after it
mark_as_cached(f, c, p) ==
    IF ~enable_caching THEN c ELSE c \cup {get_cache_key(f, p)}

\* the output path with the extension of the input kept in the name
output_path_keeps_ext(p, needs_borders) ==
    LET suffix == IF needs_borders THEN "_processed_with_borders"
                  ELSE "_processed"
    IN Path(output_dir, p.name \o <<suffix, ".jpg">>)

\* the output path process_single_image derives
output_path(p, needs_borders) ==
    LET name == splitext(p.name)[1]
        suffix == IF needs_borders THEN "_processed_with_borders"
                  ELSE "_processed"
    IN Path(output_dir, name \o <<suffix, ".jpg">>)

-----------------------------------------------------------------------------
(* The state after construction *)

NoFile == File(0, 0, 0, 0, FALSE, FALSE, FALSE)
EmptyDir == [q \in {} |-> NoFile]

\* f with file x stored at path p
Save(f, p, x) == [q \in DOMAIN f \cup {p} |-> IF q = p THEN x ELSE f[q]]

NoCall ==
    [path |-> NoPath, ret |-> "none", msg |-> "", checks |-> <<>>,
     needs_borders |-> FALSE, out |-> NoPath, from |-> <<0, 0>>,
     size |-> <<0, 0>>, bordered |-> FALSE]

NoStats ==
    [ret |-> "none", processed |-> 0, skipped |-> 0, errors |-> 0,
     total |-> 0, outputs |-> {}]

\* ImageProcessor.__init__ over a Config; the input directory holds at most
\* one file, the cache directory is empty
Init ==
    /\ enable_caching \in BOOLEAN
    /\ \E S \in SUBSET InputPaths :
           /\ Cardinality(S) <= 1
           /\ fs \in {f \in [S -> Files] : \A p \in S : f[p] \in Versions(p)}
    /\ cache = {}
    /\ processed_count = 0
    /\ skipped_count = 0
    /\ error_count = 0
    /\ pc = "idle"
    /\ pending = {}
    /\ total = 0
    /\ call = NoCall
    /\ stats = NoStats
    /\ prev = NoStats
    /\ runs = 0
    /\ transformed = {}
    /\ failed = {}
    /\ calls = 0
    /\ edits = 0
    /\ disturbed = FALSE

-----------------------------------------------------------------------------
(* process_single_image *)

\* what a call did: the path, how it ended ("skipped" and "processed" return
\* True, "invalid" and "failed" return False, "raised" returns nothing), the
\* verdict of validate_image, the output path, and the dimensions
\* process_image handed to the border step and saved
Outcome(p, r, v, o, t) ==
    [path |-> p, ret |-> r, msg |-> v.msg, checks |-> v.checks,
     needs_borders |-> v.needs_borders, out |-> o, from |-> t.from,
     size |-> t.size, bordered |-> t.bordered]
NoVerdict == Verdict(FALSE, "", FALSE, <<>>)
NoTransform ==
    [ok |-> FALSE, from |-> <<0, 0>>, size |-> <<0, 0>>, bordered |-> FALSE]

\* the modification time of a file written at path p now
Stamp(f, p) == IF p \in DOMAIN f THEN f[p].mtime + 1 ELSE 1
\* img.save of an image of the given dimensions, at modification time m
Saved(m, size) == File(m, 4096, size[1], size[2], FALSE, TRUE, TRUE)
\* what process_image can leave at the output path when it fails part way
Partial(m) == File(m, 4096, 0, 0, FALSE, FALSE, FALSE)

process_single_image(p) ==
    IF enable_caching /\ ~exists(p)
    THEN \* os.stat raises inside get_cache_key; nothing catches it
         /\ call' = Outcome(p, "raised", NoVerdict, NoPath, NoTransform)
         /\ UNCHANGED <<fs, cache, processed_count, skipped_count,
                        error_count, transformed, failed>>
    ELSE IF is_cached(fs, cache, p)
    THEN /\ skipped_count' = skipped_count + 1
         /\ call' = Outcome(p, "skipped", NoVerdict, NoPath, NoTransform)
         /\ UNCHANGED <<fs, cache, processed_count, error_count,
                        transformed, failed>>
    ELSE LET v == validate_image(fs, p) IN
         IF ~v.valid
         THEN /\ error_count' = error_count + 1
              /\ call' = Outcome(p, "invalid", v, NoPath, NoTransform)
              /\ failed' = failed \cup {p}
              /\ UNCHANGED <<fs, cache, processed_count, skipped_count,
                             transformed>>
         ELSE LET out == output_path(p, v.needs_borders)
                  t == process_image(fs[p], v.needs_borders)
              IN IF t.ok
                 THEN /\ fs' = Save(fs, out, Saved(Stamp(fs, out), t.size))
                      /\ cache' = mark_as_cached(fs', cache, p)
                      /\ processed_count' = processed_count + 1
                      /\ call' = Outcome(p, "processed", v, out, t)
                      /\ transformed' = transformed \cup {Identity(fs, p)}
                      /\ failed' = failed \ {p, out}
                      /\ UNCHANGED <<skipped_count, error_count>>
                 ELSE /\ \/ fs' = fs
                         \/ fs' = Save(fs, out, Partial(Stamp(fs, out)))
                      /\ error_count' = error_count + 1
                      /\ call' = Outcome(p, "failed", v, out, NoTransform)
                      /\ failed' = (IF fs' = fs THEN failed ELSE failed \ {out})
                                       \cup {p}
                      /\ UNCHANGED <<cache, processed_count, skipped_count,
                                     transformed>>

-----------------------------------------------------------------------------
(* process_directory, as main calls it on Config.input_dir *)

Stats(r) ==
    [ret |-> r, processed |-> processed_count, skipped |-> skipped_count,
     errors |-> error_count, total |-> total,
     outputs |-> {q \in DOMAIN fs : q.dir = output_dir}]

\* process_directory without the reset of the counters
StartRun_NoReset ==
    /\ pc = "idle"
    /\ runs < MaxRuns
    /\ runs' = runs + 1
    /\ pending' = {q \in DOMAIN fs : is_valid_image_format(q.name)}
    /\ total' = Cardinality(pending')
    /\ pc' = "running"
    /\ UNCHANGED <<enable_caching, fs, cache, processed_count, skipped_count,
                   error_count, call, stats, prev, transformed, failed, calls,
                   edits, disturbed>>

\* reset the counters and walk the tree for the files to process
StartRun ==
    /\ pc = "idle"
    /\ runs < MaxRuns
    /\ runs' = runs + 1
    /\ processed_count' = 0
    /\ skipped_count' = 0
    /\ error_count' = 0
    /\ pending' = {q \in DOMAIN fs : is_valid_image_format(q.name)}
    /\ total' = Cardinality(pending')
    /\ pc' = "running"
    /\ UNCHANGED <<enable_caching, fs, cache, call, stats, prev, transformed,
                   failed, calls, edits, disturbed>>

\* one turn of the loop; os.walk lists the files of the top directory first
ProcessNext ==
    /\ pc = "running"
    /\ \E p \in pending :
           /\ p.dir = input_dir \/ \A q \in pending : q.dir # input_dir
           /\ process_single_image(p)
           /\ pending' = pending \ {p}
    /\ IF call'.ret = "raised"
       THEN /\ pc' = "idle"
            /\ stats' = Stats("raised")
            /\ prev' = stats
       ELSE UNCHANGED <<pc, stats, prev>>
    /\ UNCHANGED <<enable_caching, total, runs, calls, edits, disturbed>>

\* the loop is over: return the statistics
FinishRun ==
    /\ pc = "running"
    /\ pending = {}
    /\ pc' = "idle"
    /\ stats' = Stats("returned")
    /\ prev' = stats
    /\ UNCHANGED <<enable_caching, fs, cache, processed_count, skipped_count,
                   error_count, pending, total, call, runs, transformed,
                   failed, calls, edits, disturbed>>

\* a caller's own call of process_single_image, on any path
ProcessSingle(p) ==
    /\ pc = "idle"
    /\ calls < MaxCalls
    /\ process_single_image(p)
    /\ calls' = calls + 1
    /\ disturbed' = TRUE
    /\ UNCHANGED <<enable_caching, pc, pending, total, stats, prev, runs,
                   edits>>

-----------------------------------------------------------------------------
(* The user of the input directory *)

\* an input file is created or replaced, between two calls
Put(p, x) ==
    /\ pc = "idle"
    /\ (IF exists(p) THEN fs[p] # x ELSE TRUE)
    /\ fs' = Save(fs, p, x)
    /\ edits' = edits + 1
    /\ disturbed' = (disturbed \/ runs > 0)
    /\ failed' = failed \ {p}
    /\ UNCHANGED <<enable_caching, cache, processed_count, skipped_count,
                   error_count, pc, pending, total, call, stats, prev, runs,
                   transformed, calls>>

\* an input file goes away, at any time
Remove(p) ==
    /\ exists(p)
    /\ fs' = [q \in DOMAIN fs \ {p} |-> fs[q]]
    /\ edits' = edits + 1
    /\ disturbed' = (disturbed \/ runs > 0)
    /\ failed' = failed \ {p}
    /\ UNCHANGED <<enable_caching, cache, processed_count, skipped_count,
                   error_count, pc, pending, total, call, stats, prev, runs,
                   transformed, calls>>

User(max) ==
    /\ edits < max
    /\ \/ \E p \in InputPaths : \E x \in Versions(p) : Put(p, x)
       \/ \E p \in InputPaths : Remove(p)

\* the processor as main uses it: process_directory, time and again
NextBatch ==
    \/ StartRun
    \/ ProcessNext
    \/ FinishRun
    \/ User(MaxEdits)

SpecBatch == Init /\ [][NextBatch]_vars

\* the processor as a library: process_single_image, file by file
NextDirect ==
    \/ \E p \in InputPaths : ProcessSingle(p)
    \/ User(MaxChanges)

SpecDirect == Init /\ [][NextDirect]_vars

-----------------------------------------------------------------------------
(* Properties *)

\* a step that is one turn of the loop of process_directory
InLoop == pc = "running" /\ pending' # pending
\* a step that is one call of process_single_image, on path call'.path
Called == InLoop \/ calls' # calls

Outputs == {q \in DOMAIN fs : q.dir = output_dir}
HasBorderSuffix(p) ==
    /\ Len(p.name) >= 2
    /\ p.name[Len(p.name) - 1] = "_processed_with_borders"
\* the file name without its last piece, the extension
Stem(p) == SubSeq(p.name, 1, Len(p.name) - 1)
\* k is the integer part of n / d; k is an integer nearest to n / d
IsFloor(k, n, d) == k * d <= n /\ n < (k + 1) * d
IsNearest(k, n, d) == 2 * k * d - 2 * n <= d /\ 2 * n - 2 * k * d <= d

\* C1: every turn of the loop of process_directory leaves the run going, and
\* a turn on a file that is missing when it is reached counts one error
C1_ErrorsIsolated ==
    [][InLoop =>
          /\ pc' = "running"
          /\ (~exists(call'.path) => error_count' = error_count + 1)]_vars

\* C2: the statistics process_directory returns add up, total = processed +
\* skipped + errors, and inside a run the three counters count exactly the
\* files visited so far, whatever earlier runs left in them
C2_TotalIsSum ==
    /\ stats.ret = "returned" =>
           stats.total = stats.processed + stats.skipped + stats.errors
    /\ pc = "running" =>
           processed_count + skipped_count + error_count
               + Cardinality(pending) = total

C2_Witness ==
    /\ stats.ret = "returned" /\ prev.ret = "returned"
    /\ prev.processed > 0 /\ prev.errors > 0
    /\ stats.processed > 0 /\ stats.skipped > 0 /\ stats.errors > 0

\* C3: with caching enabled, a call on a file that was transformed before
\* under its present path, mtime and size returns True, adds one to the
\* skipped count only, and writes no file and no marker
C3_CachedCallIsNoOp ==
    [][(/\ Called
        /\ enable_caching
        /\ exists(call'.path)
        /\ Identity(fs, call'.path) \in transformed)
       => (/\ call'.ret = "skipped"
           /\ skipped_count' = skipped_count + 1
           /\ processed_count' = processed_count
           /\ error_count' = error_count
           /\ fs' = fs
           /\ cache' = cache)]_vars

C3_Witness ==
    /\ call.ret = "skipped"
    /\ skipped_count = 1 /\ processed_count = 1
    /\ Cardinality(Outputs) = 1
    /\ Cardinality(cache) = 1

\* a step that changes the mtime or the size of file p, processed and
\* marked cached as it was
Modified(p) ==
    /\ enable_caching
    /\ p \in DOMAIN fs /\ p \in DOMAIN fs'
    /\ Identity(fs, p) \in transformed
    /\ Identity(fs', p) # Identity(fs, p)

\* C4 as claimed: once a cached file is modified so that its mtime or size
\* changes, no marker matches it
C4_ModifiedIsReprocessed ==
    [][\A p \in InputPaths : Modified(p) => ~is_cached(fs', cache', p)]_vars

\* C4 amended: once a cached file is modified so that its mtime or size
\* changes, no marker matches it unless it was transformed before under the
\* new mtime and size; and a call on a file never transformed under its
\* present mtime and size does not skip it, validates it, and when it
\* transforms it writes the result over the output of the derived name
C4_ModifiedIsReprocessedUnlessRestored ==
    [][/\ \A p \in InputPaths :
              (Modified(p) /\ Identity(fs', p) \notin transformed)
                  => ~is_cached(fs', cache', p)
       /\ (/\ Called
           /\ enable_caching
           /\ exists(call'.path)
           /\ Identity(fs, call'.path) \notin transformed)
          => (/\ call'.ret \in {"invalid", "failed", "processed"}
              /\ call'.checks # <<>>
              /\ call'.ret = "processed" =>
                     fs'[call'.out] =
                         Saved(Stamp(fs, call'.out),
                               process_image(fs[call'.path],
                                             call'.needs_borders).size))]_vars

C4_Witness ==
    /\ enable_caching
    /\ call.ret = "processed"
    /\ \E k \in cache :
           /\ k[1] = call.path
           /\ exists(call.path)
           /\ k # Identity(fs, call.path)
           /\ Identity(fs, call.path) \in cache
    /\ exists(call.out) /\ fs[call.out].mtime = 2

\* C5: every image that is transformed is saved at least min_width wide, and
\* it was given borders exactly when its output name says so
C5_MinWidthEnforced ==
    call.ret = "processed" =>
        /\ call.size[1] >= min_width
        /\ call.bordered <=> HasBorderSuffix(call.out)

FirstFailure(f, p) ==
    IF p.name[Len(p.name)] \notin {".jpg", ".JPG", ".jpeg", ".png", ".PNG"}
    THEN 1
    ELSE IF p \notin DOMAIN f THEN 2
    ELSE IF f[p].size > SizeLimit THEN 3
    ELSE IF ~f[p].intact THEN 4
    ELSE 0
CheckOrder == <<"extension", "exists", "size", "verify">>
CheckMessage ==
    <<"Invalid image extension", "File does not exist", "File too large",
      "Error validating image">>
\* verdict v is the one the first failing check of p gives, with no check
\* made after it
Shortcut(v, f, p) ==
    LET k == FirstFailure(f, p)
    IN IF k = 0
       THEN v = Verdict(TRUE, "", f[p].width < min_width, CheckOrder)
       ELSE v = Verdict(FALSE, CheckMessage[k], FALSE, SubSeq(CheckOrder, 1, k))

\* C7: validate_image checks extension, existence, size and image data in
\* that order and stops at the first check that fails: on every path, and in
\* every call that validates, the verdict is that of the first failing check
C7_ChecksInOrder ==
    /\ [](\A p \in InputPaths : Shortcut(validate_image(fs, p), fs, p))
    /\ [][(Called /\ call'.ret \in {"invalid", "failed", "processed"}) =>
             Shortcut(Verdict(call'.ret # "invalid", call'.msg,
                              call'.needs_borders, call'.checks),
                      fs, call'.path)]_vars

C7_Witness ==
    /\ call.ret = "invalid"
    /\ call.msg = "File too large"
    /\ call.checks = <<"extension", "exists", "size">>
    /\ exists(call.path)
    /\ ~fs[call.path].intact

\* C8: markers are written only for the path, mtime and size of a file that
\* was just transformed, and never removed; a call that counts an error
\* writes no marker and counts nothing as processed; a file that was
\* counted as an error and has not changed is counted as an error again,
\* not skipped; with caching disabled there is no marker and no skip
C8_MarkersOnlyOnSuccess ==
    /\ [](/\ cache \subseteq transformed
          /\ ~enable_caching => (cache = {} /\ skipped_count = 0))
    /\ [][/\ cache \subseteq cache'
          /\ cache' # cache =>
                 /\ Called
                 /\ call'.ret = "processed"
                 /\ cache' = cache \cup {Identity(fs, call'.path)}
          /\ (Called /\ call'.ret \in {"invalid", "failed"}) =>
                 (cache' = cache /\ processed_count' = processed_count)
          /\ (Called /\ call'.path \in failed) =>
                 /\ call'.ret \in {"invalid", "failed"}
                 /\ error_count' = error_count + 1
                 /\ skipped_count' = skipped_count]_vars

C8_Witness ==
    /\ enable_caching
    /\ ~disturbed
    /\ stats.ret = "returned" /\ prev.ret = "returned"
    /\ prev.errors = 1 /\ stats.errors = 1
    /\ stats.skipped = 1
    /\ failed # {}
    /\ Cardinality(cache) = 2

\* C9: a call that transforms a file writes exactly one file, at the output
\* directory under the stem of the input, the suffix for needs_borders and
\* ".jpg", counts it as processed and marks it cached; any other file of the
\* same stem and the same needs_borders has the same output path
C9_OutputPathByStem ==
    [][(Called /\ call'.ret = "processed") =>
          LET p == call'.path
              nb == call'.needs_borders
              suffix == IF nb THEN "_processed_with_borders"
                        ELSE "_processed"
              out == Path(output_dir, Stem(p) \o <<suffix, ".jpg">>)
          IN /\ call'.out = out
             /\ DOMAIN fs' = DOMAIN fs \cup {out}
             /\ \A q \in DOMAIN fs \ {out} : fs'[q] = fs[q]
             /\ fs'[out] = Saved(Stamp(fs, out), call'.size)
             /\ processed_count' = processed_count + 1
             /\ enable_caching => Identity(fs, p) \in cache'
             /\ \A q \in DOMAIN fs :
                    (/\ Stem(q) = Stem(p)
                     /\ validate_image(fs, q).valid
                     /\ validate_image(fs, q).needs_borders = nb)
                        => output_path(q, nb) = out]_vars

\* two inputs of one run wrote the same output: fewer outputs than processed
C9_Witness ==
    /\ runs = 1
    /\ stats.ret = "returned"
    /\ stats.processed = 2
    /\ Cardinality(stats.outputs) = 1
    /\ Cardinality(cache) = 2

\* C10: with caching enabled and the cache empty at first, the second of two
\* runs with no input changed in between processes nothing, skips what the
\* first processed, finds as many files, and leaves the same output files
\* (stated for the runs in which every file is transformed or skipped)
C10_SecondRunIsFixedPoint ==
    (/\ enable_caching
     /\ ~disturbed
     /\ runs = 2
     /\ pc = "idle"
     /\ stats.ret = "returned" /\ prev.ret = "returned"
     /\ stats.errors = 0 /\ prev.errors = 0)
    => (/\ stats.processed = 0
        /\ stats.skipped = prev.processed
        /\ stats.total = prev.total
        /\ stats.outputs = prev.outputs)

====
